---- MODULE Spec2Model ----
(***************************************************************************)
(* datamanipy/file.py: the File class (a path, its derived name parts and  *)
(* create/open/remove), the Sas subclass (read, read_in_chunks, to_csv)    *)
(* and the file system they act on.                                        *)
(*                                                                         *)
(* A string is a sequence of tokens.  The tokens "/" and "." are the path  *)
(* separator and the extension separator; every other token stands for a   *)
(* non-empty run of characters holding neither.                            *)
(***************************************************************************)
EXTENDS Integers, Sequences, FiniteSets, TLC

\* ------------------------------------------------------------------ bounds

\* Rows of the largest source table.
MaxRows == 3
\* The default chunksize of read_in_chunks (10000 in the source), scaled to
\* the size of the tables of the model.
DefaultChunkSize == 2
\* The largest chunksize a caller passes to read_in_chunks.
MaxChunk == 3
\* The largest row_limit a caller passes to read and read_in_chunks.
MaxLimit == 1
\* Objects alive at once.
MaxHandles == 1
\* Lines of the longest target file: a to_csv() that would leave more is not run.
MaxCsvLines == 5
\* Tokens of the longest path string given to the path functions.
MaxPathLen == 5

\* ----------------------------------------------------------------- strings

SEP == "/"
EXTSEP == "."
SasExt == <<".", "sas7bdat">>
CsvExt == <<".", "csv">>

Max(S) == CHOOSE x \in S : \A y \in S : y <= x
Min(a, b) == IF a <= b THEN a ELSE b

\* str.rfind(c) + 1: the 1-based place of the last c in s, 0 when there is none.
RFind(s, c) ==
    LET I == {i \in 1..Len(s) : s[i] = c}
    IN  IF I = {} THEN 0 ELSE Max(I)

\* str.rstrip(sep)
RStripSep(s) ==
    LET I == {i \in 1..Len(s) : s[i] # SEP}
    IN  IF I = {} THEN <<>> ELSE SubSeq(s, 1, Max(I))

StartsWithSep(s) == Len(s) > 0 /\ s[1] = SEP
EndsWithSep(s) == Len(s) > 0 /\ s[Len(s)] = SEP

\* os.path.split(p): <<head, tail>>, cut after the last separator; the head
\* loses its trailing separators unless it is made of separators only.
split(p) ==
    LET i == RFind(p, SEP)
        head == SubSeq(p, 1, i)
        tail == SubSeq(p, i + 1, Len(p))
    IN  IF head # <<>> /\ (\E j \in 1..Len(head) : head[j] # SEP)
        THEN <<RStripSep(head), tail>>
        ELSE <<head, tail>>

\* os.path.splitext(p): <<root, ext>>, cut before the last dot of the last
\* component, unless that component has only dots before it.
splitext(p) ==
    LET sepIndex == RFind(p, SEP)
        dotIndex == RFind(p, EXTSEP)
    IN  IF /\ dotIndex > sepIndex
           /\ \E k \in (sepIndex + 1)..(dotIndex - 1) : p[k] # EXTSEP
        THEN <<SubSeq(p, 1, dotIndex - 1), SubSeq(p, dotIndex, Len(p))>>
        ELSE <<p, <<>>>>

\* os.path.join(a, b)
join(a, b) ==
    IF StartsWithSep(b) THEN b
    ELSE IF a = <<>> \/ EndsWithSep(a) THEN a \o b
    ELSE a \o <<SEP>> \o b

\* ------------------------------------------------------------- file system

SasPath == <<"d", "/", "t", ".", "sas7bdat">>
CsvPath == <<"d", "/", "t", ".", "csv">>
Paths == {SasPath, CsvPath}

NoFile == [fmt |-> "absent", data |-> <<>>, dates |-> FALSE]
\* A sas7bdat table of n rows, with or without a column of dates; a stored row
\* is its number in the table.
SasFile(n, dates) ==
    [fmt |-> "sas", data |-> [i \in 1..n |-> <<"row", i>>], dates |-> dates]
TextFile(lines) == [fmt |-> "text", data |-> lines, dates |-> FALSE]
HeaderLine == <<"header", 0>>
OldLine == <<"old", 0>>

exists(f, p) == f[p] # NoFile

\* The builtin open(file, mode), opened and closed again: the error it raises
\* ("none" when it opens) and the file system it leaves.
Open(f, p, mode) ==
    CASE mode = "r" ->
           IF exists(f, p) THEN [err |-> "none", fs |-> f]
           ELSE [err |-> "FileNotFoundError", fs |-> f]
      [] mode = "w" -> [err |-> "none", fs |-> [f EXCEPT ![p] = TextFile(<<>>)]]
      [] mode = "a" ->
           IF exists(f, p) THEN [err |-> "none", fs |-> f]
           ELSE [err |-> "none", fs |-> [f EXCEPT ![p] = TextFile(<<>>)]]
      [] mode = "x" ->
           IF exists(f, p) THEN [err |-> "FileExistsError", fs |-> f]
           ELSE [err |-> "none", fs |-> [f EXCEPT ![p] = TextFile(<<>>)]]

\* os.remove(p); denied: the operating system refuses the unlink of a file
\* that is there (a directory without write permission, a locked file).
OsRemove(f, p, denied) ==
    IF ~exists(f, p) THEN [err |-> "FileNotFoundError", fs |-> f]
    ELSE IF denied THEN [err |-> "PermissionError", fs |-> f]
    ELSE [err |-> "none", fs |-> [f EXCEPT ![p] = NoFile]]

\* ----------------------------------------------------------------- objects

NoObj == [cls |-> "none", path |-> <<>>, encoding |-> "", directory |-> <<>>,
          file |-> <<>>, name |-> <<>>, extension |-> <<>>]

\* As Attrs, with the name and extension cut from the path, not from the file.
AttrsSplitsPath(cls, path, encoding) ==
    LET dirFile == split(path)
        nameExt == splitext(path)
    IN  [cls |-> cls, path |-> path, encoding |-> encoding,
         directory |-> dirFile[1], file |-> dirFile[2],
         name |-> nameExt[1], extension |-> nameExt[2]]

\* The attributes File.__init__ sets from the path.
Attrs(cls, path, encoding) ==
    LET dirFile == split(path)
        nameExt == splitext(dirFile[2])
    IN  [cls |-> cls, path |-> path, encoding |-> encoding,
         directory |-> dirFile[1], file |-> dirFile[2],
         name |-> nameExt[1], extension |-> nameExt[2]]

\* As FileNew, without the probe open.
FileNewNoProbe(cls, f, path, encoding) ==
    [err |-> "none", obj |-> Attrs(cls, path, encoding)]

\* File(path, encoding): the attributes, then the probe open.
FileNew(cls, f, path, encoding) ==
    LET probe == Open(f, path, "r")
    IN  IF probe.err # "none" THEN [err |-> probe.err, obj |-> NoObj]
        ELSE [err |-> "none", obj |-> Attrs(cls, path, encoding)]

\* As SasNew, with the extension checked before File's constructor runs.
SasNewChecksFirst(f, path, encoding) ==
    IF Attrs("Sas", path, encoding).extension # SasExt
    THEN [err |-> "TypeError", obj |-> NoObj]
    ELSE FileNew("Sas", f, path, encoding)

\* Sas(path, encoding): File's constructor, then the extension check.

SasNew(f, path, encoding) ==
    LET super == FileNew("Sas", f, path, encoding)
    IN  IF super.err # "none" THEN super
        ELSE IF super.obj.extension # SasExt
        THEN [err |-> "TypeError", obj |-> NoObj]
        ELSE super

\* ---------------------------------------------------------------- reading

\* A stored row as a row of the DataFrame: its number, and how the dates of
\* its date column come out, as pandas datetime64 values when
\* dates_as_pandas_datetime is set and as datetime.date objects when not.
Materialize(row, dates, dates_as_pandas_datetime) ==
    <<"row", row[2],
      IF ~dates THEN "no date"
      ELSE IF dates_as_pandas_datetime THEN "datetime64" ELSE "datetime.date">>

\* pyreadstat.read_sas7bdat(path, row_offset, row_limit,
\* dates_as_pandas_datetime): the rows of the table from row_offset on, at
\* most row_limit of them (0: all that are left).
ReadSas7bdat(f, path, row_offset, row_limit, dates_as_pandas_datetime) ==
    IF ~exists(f, path) THEN [err |-> "PyreadstatError", rows |-> <<>>]
    ELSE IF f[path].fmt # "sas" THEN [err |-> "ReadstatError", rows |-> <<>>]
    ELSE LET n == Len(f[path].data)
             last == IF row_limit = 0 THEN n ELSE Min(n, row_offset + row_limit)
             stored == SubSeq(f[path].data, row_offset + 1, last)
         IN  [err |-> "none",
              rows |-> [i \in 1..Len(stored) |->
                          Materialize(stored[i], f[path].dates,
                                      dates_as_pandas_datetime)]]

\* Sas.read(row_limit): one read with dates_as_pandas_datetime=True.
Read(f, obj, row_limit) == ReadSas7bdat(f, obj.path, 0, row_limit, TRUE)

\* pyreadstat.read_file_in_chunks(read_sas7bdat, path, limit, chunksize), run to
\* its end: one read of chunksize rows per turn, from an offset that grows by
\* chunksize; an empty read ends it and is not yielded; with a limit, so does
\* an offset that has reached it.  Sas.read_in_chunks passes it the encoding
\* only, so each read is made with dates_as_pandas_datetime at its default,
\* False.
RECURSIVE ReadFileInChunks(_, _, _, _, _)
ReadFileInChunks(f, path, limit, chunksize, offset) ==
    LET df == ReadSas7bdat(f, path, offset, chunksize, FALSE)
    IN  IF df.err # "none" THEN [err |-> df.err, chunks |-> <<>>]
        ELSE IF Len(df.rows) = 0 THEN [err |-> "none", chunks |-> <<>>]
        ELSE LET rest == IF limit # 0 /\ offset + chunksize >= limit
                         THEN [err |-> "none", chunks |-> <<>>]
                         ELSE ReadFileInChunks(f, path, limit, chunksize,
                                               offset + chunksize)
             IN  [err |-> rest.err, chunks |-> <<df.rows>> \o rest.chunks]

\* Sas.read_in_chunks(row_limit, chunksize), consumed to its end.
ReadInChunks(f, obj, row_limit, chunksize) ==
    ReadFileInChunks(f, obj.path, row_limit, chunksize, 0)

\* ------------------------------------------------------------------ to_csv

\* What may fail during one to_csv(): the n-th read of a chunk, or the n-th
\* write of one (nothing of the chunk is written).
NoFault == [at |-> "none", n |-> 0]
MaxTurns == (MaxRows + DefaultChunkSize - 1) \div DefaultChunkSize + 1
IoFaults == {NoFault} \cup [at : {"read", "write"}, n : 1..MaxTurns]

\* A row of the DataFrame as a line of the csv file (a date is written as
\* the same text from either representation).
CsvLine(row) == <<"line", row[2]>>

\* DataFrame.to_csv(path, header, mode='a'): the header line if asked for,
\* then one line per row, appended to the target, which is created if absent.
AppendLines(f, p, lines) ==
    [f EXCEPT ![p] = TextFile((IF exists(f, p) THEN f[p].data ELSE <<>>) \o lines)]

\* As ChunkLines, with the header on every chunk.
ChunkLinesHeaderAlways(rows, header) ==
    <<HeaderLine>> \o [i \in 1..Len(rows) |-> CsvLine(rows[i])]

ChunkLines(rows, header) ==
    (IF header THEN <<HeaderLine>> ELSE <<>>) \o [i \in 1..Len(rows) |-> CsvLine(rows[i])]

\* The loop of to_csv from the turn that reads at `offset`: nread and nwrite
\* count the reads and writes made so far, log lists them.
RECURSIVE ToCsvLoop(_, _, _, _, _, _, _, _, _)
ToCsvLoop(f, path, csv_path, offset, header, nread, nwrite, io, log) ==
    IF io.at = "read" /\ io.n = nread + 1
    THEN [fs |-> f, err |-> "OSError", log |-> log \o <<"read_error">>]
    ELSE
    LET df == ReadSas7bdat(f, path, offset, DefaultChunkSize, FALSE)
    IN  IF df.err # "none"
        THEN [fs |-> f, err |-> df.err, log |-> log \o <<"read_error">>]
        ELSE IF Len(df.rows) = 0
        THEN [fs |-> f, err |-> "none", log |-> log \o <<"read_end">>]
        ELSE IF io.at = "write" /\ io.n = nwrite + 1
        THEN [fs |-> f, err |-> "OSError", log |-> log \o <<"read", "write_error">>]
        ELSE ToCsvLoop(AppendLines(f, csv_path, ChunkLines(df.rows, header)),
                       path, csv_path, offset + DefaultChunkSize, FALSE,
                       nread + 1, nwrite + 1, io,
                       log \o <<"read", IF header THEN "write_header" ELSE "write">>)

\* As ToCsv, with the completion notice printed whether or not the loop ended
\* in an error.
ToCsvNoticeAlways(f, obj, denied, io) ==
    LET csv_file == obj.name \o CsvExt
        csv_path == join(obj.directory, csv_file)
        rm == OsRemove(f, csv_path, denied)
        warn == IF rm.err = "none" THEN <<"removed">> ELSE <<>>
        loop == ToCsvLoop(rm.fs, obj.path, csv_path, 0, TRUE, 0, 0, io,
                          <<IF rm.err = "none" THEN "remove" ELSE "remove_error">>)
    IN  [fs |-> loop.fs, err |-> loop.err, log |-> loop.log,
         out |-> warn \o <<"converted">>]

\* Sas.to_csv(): the target path, the pre-clean delete whose failure is
\* swallowed, the loop, the notices printed.
ToCsv(f, obj, denied, io) ==
    LET csv_file == obj.name \o CsvExt
        csv_path == join(obj.directory, csv_file)
        rm == OsRemove(f, csv_path, denied)
        warn == IF rm.err = "none" THEN <<"removed">> ELSE <<>>
        loop == ToCsvLoop(rm.fs, obj.path, csv_path, 0, TRUE, 0, 0, io,
                          <<IF rm.err = "none" THEN "remove" ELSE "remove_error">>)
    IN  [fs |-> loop.fs, err |-> loop.err, log |-> loop.log,
         out |-> IF loop.err = "none" THEN warn \o <<"converted">> ELSE warn]

\* ------------------------------------------------------------------- state

VARIABLES
    fs,        \* the file at each path, NoFile where there is none
    handles,   \* the File and Sas objects alive, by slot
    lastOp,    \* the last call: its arguments, the error raised, what it printed and returned
    tick       \* flips at every call

vars == <<fs, handles, lastOp, tick>>

Handles == 1..MaxHandles
Modes == {"r", "w", "a", "x"}
Encodings == {"default", "utf-8"}

Call(op, h, path, mode, limit, chunksize, err, out, ret, log) ==
    [op |-> op, h |-> h, path |-> path, mode |-> mode, limit |-> limit,
     chunksize |-> chunksize, err |-> err, out |-> out, ret |-> ret, log |-> log]

Init ==
    /\ \E n \in 0..MaxRows, dates \in BOOLEAN, old \in BOOLEAN :
         fs = [p \in Paths |->
                 IF p = SasPath THEN SasFile(n, dates)
                 ELSE IF old THEN TextFile(<<OldLine>>) ELSE NoFile]
    /\ handles = [h \in Handles |-> NoObj]
    /\ lastOp = Call("none", 0, <<>>, "", 0, 0, "none", <<>>, <<>>, <<>>)
    /\ tick = 0

Ticked == tick' = 1 - tick

\* h = File(path, encoding)
FileInit(h, path, enc) ==
    LET new == FileNew("File", fs, path, IF enc = "default" THEN "None" ELSE enc)
    IN  /\ handles' = IF new.err = "none" THEN [handles EXCEPT ![h] = new.obj]
                      ELSE handles
        /\ lastOp' = Call("File", h, path, "", 0, 0, new.err, <<>>, <<>>, <<>>)
        /\ Ticked
        /\ UNCHANGED fs

\* h = Sas(path, encoding)
SasInit(h, path, enc) ==
    LET new == SasNew(fs, path, IF enc = "default" THEN "latin1" ELSE enc)
    IN  /\ handles' = IF new.err = "none" THEN [handles EXCEPT ![h] = new.obj]
                      ELSE handles
        /\ lastOp' = Call("Sas", h, path, "", 0, 0, new.err, <<>>, <<>>, <<>>)
        /\ Ticked
        /\ UNCHANGED fs

\* handles[h].remove()
FileRemove(h, denied) ==
    /\ handles[h] # NoObj
    /\ LET rm == OsRemove(fs, handles[h].path, denied)
       IN  /\ fs' = rm.fs
           /\ lastOp' = Call("remove", h, handles[h].path, "", 0, 0, rm.err,
                             <<>>, <<>>, <<>>)
    /\ Ticked
    /\ UNCHANGED handles

\* handles[h].open(mode): the file object is returned open to the caller.
FileOpen(h, mode) ==
    /\ handles[h] # NoObj
    /\ LET o == Open(fs, handles[h].path, mode)
       IN  /\ fs' = o.fs
           /\ lastOp' = Call("open", h, handles[h].path, mode, 0, 0, o.err, <<>>,
                             IF o.err = "none" THEN <<"file object">> ELSE <<>>, <<>>)
    /\ Ticked
    /\ UNCHANGED handles

\* As Create, with the file opened for writing, not for exclusive creation.
CreateTruncates(f, obj) ==
    LET o == Open(f, obj.path, "w")
    IN  [fs |-> o.fs, err |-> o.err,
         out |-> IF o.err = "none" THEN <<"created">> ELSE <<>>]

\* handles[h].create(): open for exclusive creation, print, close.
Create(f, obj) ==
    LET o == Open(f, obj.path, "x")
    IN  [fs |-> o.fs, err |-> o.err,
         out |-> IF o.err = "none" THEN <<"created">> ELSE <<>>]

FileCreate(h) ==
    /\ handles[h] # NoObj
    /\ LET c == Create(fs, handles[h])
       IN  /\ fs' = c.fs
           /\ lastOp' = Call("create", h, handles[h].path, "", 0, 0, c.err, c.out,
                             <<>>, <<>>)
    /\ Ticked
    /\ UNCHANGED handles

\* handles[h].read(row_limit)
SasRead(h, row_limit) ==
    /\ handles[h].cls = "Sas"
    /\ LET r == Read(fs, handles[h], row_limit)
       IN  lastOp' = Call("read", h, handles[h].path, "", row_limit, 0, r.err,
                          <<>>, r.rows, <<>>)
    /\ Ticked
    /\ UNCHANGED <<fs, handles>>

\* list(handles[h].read_in_chunks(row_limit, chunksize))
SasReadInChunks(h, row_limit, chunksize) ==
    /\ handles[h].cls = "Sas"
    /\ LET r == ReadInChunks(fs, handles[h], row_limit, chunksize)
       IN  lastOp' = Call("read_in_chunks", h, handles[h].path, "", row_limit,
                          chunksize, r.err, <<>>, r.chunks, <<>>)
    /\ Ticked
    /\ UNCHANGED <<fs, handles>>

\* handles[h].to_csv()
SasToCsv(h, denied, io) ==
    /\ handles[h].cls = "Sas"
    /\ LET c == ToCsv(fs, handles[h], denied, io)
       IN  /\ \A p \in Paths : Len(c.fs[p].data) <= MaxCsvLines
           /\ fs' = c.fs
           /\ lastOp' = Call("to_csv", h, handles[h].path, "", 0, 0, c.err, c.out,
                             <<>>, c.log)
    /\ Ticked
    /\ UNCHANGED handles

\* The calls of one program on the two files; the constructors take the
\* default encoding here and either encoding under PathSpec.
Next ==
    \/ \E h \in Handles, p \in Paths : FileInit(h, p, "default")
    \/ \E h \in Handles, p \in Paths : SasInit(h, p, "default")
    \/ \E h \in Handles, denied \in BOOLEAN : FileRemove(h, denied)
    \/ \E h \in Handles, mode \in Modes : FileOpen(h, mode)
    \/ \E h \in Handles : FileCreate(h)
    \/ \E h \in Handles, n \in 0..MaxLimit : SasRead(h, n)
    \/ \E h \in Handles, n \in 0..MaxLimit, k \in 1..MaxChunk : SasReadInChunks(h, n, k)
    \/ \E h \in Handles, denied \in BOOLEAN, io \in IoFaults : SasToCsv(h, denied, io)

Spec == Init /\ [][Next]_vars

\* ------------------------------------------------- the path functions alone

PathTokens == {SEP, EXTSEP, "t", "sas7bdat"}

RECURSIVE Strings(_)
Strings(n) ==
    IF n = 0 THEN {<<>>}
    ELSE LET S == Strings(n - 1)
         IN  S \cup {s \o <<c>> : s \in {x \in S : Len(x) = n - 1}, c \in PathTokens}

\* The strings that can name a regular file: the last component is a name.
FilePaths ==
    {p \in Strings(MaxPathLen) :
        split(p)[2] \notin {<<>>, <<EXTSEP>>, <<EXTSEP, EXTSEP>>}}

ThePath == CHOOSE p \in DOMAIN fs : TRUE

PathInit ==
    /\ \E p \in FilePaths, present \in BOOLEAN :
         fs = [q \in {p} |-> IF present THEN TextFile(<<>>) ELSE NoFile]
    /\ handles = [h \in Handles |-> NoObj]
    /\ lastOp = Call("none", 0, <<>>, "", 0, 0, "none", <<>>, <<>>, <<>>)
    /\ tick = 0

\* The constructors on the one path of the file system.
PathNext ==
    \/ \E h \in Handles, enc \in Encodings : FileInit(h, ThePath, enc)
    \/ \E h \in Handles, enc \in Encodings : SasInit(h, ThePath, enc)

PathSpec == PathInit /\ [][PathNext]_vars

\* os.path.normpath(p), for stating what "after normalization" means: empty
\* and "." components dropped, ".." folded, exactly two leading separators
\* kept as two and any other number as one.
RECURSIVE Components(_)
Components(p) ==
    LET I == {i \in 1..Len(p) : p[i] = SEP}
    IN  IF I = {} THEN <<p>>
        ELSE LET i == CHOOSE x \in I : \A y \in I : x <= y
             IN  <<SubSeq(p, 1, i - 1)>> \o Components(SubSeq(p, i + 1, Len(p)))

DotDot == <<EXTSEP, EXTSEP>>

RECURSIVE Fold(_, _, _)
Fold(comps, new_comps, initial_slashes) ==
    IF comps = <<>> THEN new_comps
    ELSE LET comp == Head(comps)
             n == Len(new_comps)
             next ==
                 IF comp \in {<<>>, <<EXTSEP>>} THEN new_comps
                 ELSE IF \/ comp # DotDot
                         \/ (initial_slashes = 0 /\ n = 0)
                         \/ (n > 0 /\ new_comps[n] = DotDot)
                 THEN new_comps \o <<comp>>
                 ELSE IF n > 0 THEN SubSeq(new_comps, 1, n - 1)
                 ELSE new_comps
         IN  Fold(Tail(comps), next, initial_slashes)

RECURSIVE JoinComponents(_)
JoinComponents(comps) ==
    IF comps = <<>> THEN <<>>
    ELSE IF Len(comps) = 1 THEN comps[1]
    ELSE comps[1] \o <<SEP>> \o JoinComponents(Tail(comps))

normpath(p) ==
    IF p = <<>> THEN <<EXTSEP>>
    ELSE LET initial_slashes ==
                 IF ~StartsWithSep(p) THEN 0
                 ELSE IF Len(p) >= 2 /\ p[2] = SEP /\ ~(Len(p) >= 3 /\ p[3] = SEP)
                 THEN 2 ELSE 1
             body == JoinComponents(Fold(Components(p), <<>>, initial_slashes))
             out == [i \in 1..initial_slashes |-> SEP] \o body
         IN  IF out = <<>> THEN <<EXTSEP>> ELSE out

\* ------------------------------------------------------------------ claims

\* The extension the path functions give a path.
Extension(p) == splitext(split(p)[2])[2]
\* The target of to_csv() for a source path.
CsvTarget(p) == join(split(p)[1], splitext(split(p)[2])[1] \o CsvExt)
\* A csv file of one header line and the lines of rows 1..n.
HeaderAndRows(n) == [i \in 1..(n + 1) |-> IF i = 1 THEN HeaderLine ELSE <<"line", i - 1>>]
Writes(log) == SelectSeq(log, LAMBDA e : e \in {"write", "write_header"})
Errors(log) == SelectSeq(log, LAMBDA e : e \in {"read_error", "write_error"})
RECURSIVE Flatten(_)
Flatten(chunks) == IF chunks = <<>> THEN <<>> ELSE Head(chunks) \o Flatten(Tail(chunks))
IsProbe(op) == op.op \in {"File", "Sas"} \/ (op.op = "open" /\ op.mode = "r")

\* C1, as stated: Sas(path) on a path whose extension is not .sas7bdat raises
\* TypeError, whether or not a file is at the path.
C1_AsStated ==
    (lastOp.op = "Sas" /\ Extension(lastOp.path) # SasExt) => lastOp.err = "TypeError"

\* C1, amended: Sas(path) on a path whose extension is not .sas7bdat raises
\* TypeError when a file is at the path, and FileNotFoundError (the probe open
\* comes first) when none is.
C1_Amended ==
    (lastOp.op = "Sas" /\ Extension(lastOp.path) # SasExt) =>
        lastOp.err = IF exists(fs, lastOp.path) THEN "TypeError" ELSE "FileNotFoundError"

C1_Witness ==
    /\ lastOp.op = "Sas"
    /\ Extension(lastOp.path) # SasExt
    /\ exists(fs, lastOp.path)
    /\ lastOp.err = "TypeError"

\* C8, as stated: for every constructed File, directory + separator + file is
\* the path after normalization, and name + extension is file, bare file
\* names included.
C8_AsStated ==
    \A h \in Handles : handles[h] # NoObj =>
        /\ normpath(handles[h].directory \o <<SEP>> \o handles[h].file)
             = normpath(handles[h].path)
        /\ handles[h].name \o handles[h].extension = handles[h].file

\* C8, amended: name + extension is file for every constructed File; directory
\* + separator + file is the path after normalization exactly when directory
\* is not "", "/" or "//" (for a bare file name it is the other path "/file").
C8_Amended ==
    \A h \in Handles : handles[h] # NoObj =>
        /\ handles[h].name \o handles[h].extension = handles[h].file
        /\ (normpath(handles[h].directory \o <<SEP>> \o handles[h].file)
              = normpath(handles[h].path))
           <=> handles[h].directory \notin {<<>>, <<SEP>>, <<SEP, SEP>>}
        /\ handles[h].directory = <<>> => handles[h].file = handles[h].path

C8_Witness ==
    \E h \in Handles :
        /\ handles[h] # NoObj
        /\ handles[h].directory = <<"t">>
        /\ handles[h].extension = SasExt
        /\ handles[h].name = <<"t">>

\* The step is a to_csv() call; Source and Target are its source and target.
ToCsvStep == lastOp'.op = "to_csv"
Source == lastOp'.path
Target == CsvTarget(lastOp'.path)
SasRows(f, p) == f[p].fmt = "sas"

\* C2: a to_csv() that returns normally on a source of N >= 1 rows, started
\* with no file at the target, leaves the target holding one header line and
\* then the N rows in source order, each once; the header goes with the first
\* chunk written and with no later one.
C2_HeaderThenRows ==
    [][(/\ ToCsvStep
        /\ lastOp'.err = "none"
        /\ ~exists(fs, Target)
        /\ SasRows(fs, Source)
        /\ Len(fs[Source].data) >= 1)
       => /\ exists(fs', Target)
          /\ fs'[Target].data = HeaderAndRows(Len(fs[Source].data))
          /\ LET w == Writes(lastOp'.log)
             IN  /\ w[1] = "write_header"
                 /\ \A i \in 2..Len(w) : w[i] = "write"]_vars

C2_Witness ==
    /\ lastOp.op = "to_csv"
    /\ lastOp.err = "none"
    /\ lastOp.log[1] = "remove_error"
    /\ Len(Writes(lastOp.log)) >= 2
    /\ fs[CsvTarget(lastOp.path)].data = HeaderAndRows(MaxRows)

\* C3, as stated: to_csv() on a source of 0 rows leaves a target that exists
\* and holds the header line only.
C3_AsStated ==
    [][(/\ ToCsvStep
        /\ lastOp'.err = "none"
        /\ SasRows(fs, Source)
        /\ Len(fs[Source].data) = 0
        /\ ~exists(fs, Target))
       => /\ exists(fs', Target)
          /\ fs'[Target].data = <<HeaderLine>>]_vars

\* C4, as stated: of two to_csv() calls in a row on the same source, both
\* returning normally, the second removes the target the first left, prints
\* the warning, and leaves the target with the content the first left.
C4_AsStated ==
    [][(/\ lastOp.op = "to_csv"
        /\ lastOp.err = "none"
        /\ ToCsvStep
        /\ lastOp'.err = "none"
        /\ lastOp'.h = lastOp.h)
       => /\ lastOp'.log[1] = "remove"
          /\ "removed" \in {lastOp'.out[i] : i \in 1..Len(lastOp'.out)}
          /\ fs'[Target] = fs[Target]]_vars

\* C5, as stated: for every chunksize k >= 1, the chunks of
\* read_in_chunks(chunksize=k), put end to end in the order yielded, are
\* exactly the rows read() returns, and no chunk has more than k rows.
C5_AsStated ==
    (/\ lastOp.op = "read_in_chunks"
     /\ lastOp.limit = 0
     /\ lastOp.err = "none")
    => /\ Read(fs, handles[lastOp.h], 0).err = "none"
       /\ Flatten(lastOp.ret) = Read(fs, handles[lastOp.h], 0).rows
       /\ \A i \in 1..Len(lastOp.ret) : Len(lastOp.ret[i]) <= lastOp.chunksize

\* C6: create() on a path that holds a file raises FileExistsError and leaves
\* the file as it was; on a path that holds none it succeeds and leaves an
\* empty file there, closed, which a probe open can read.
C6_Create ==
    [][lastOp'.op = "create" =>
         IF exists(fs, lastOp'.path)
         THEN /\ lastOp'.err = "FileExistsError"
              /\ lastOp'.out = <<>>
              /\ fs' = fs
         ELSE /\ lastOp'.err = "none"
              /\ lastOp'.out = <<"created">>
              /\ lastOp'.ret = <<>>
              /\ fs' = [fs EXCEPT ![lastOp'.path] = TextFile(<<>>)]
              /\ Open(fs', lastOp'.path, "r").err = "none"]_vars

C6_Witness ==
    /\ lastOp.op = "create"
    /\ lastOp.err = "none"
    /\ fs[lastOp.path] = TextFile(<<>>)

\* C7, as stated: once remove() has left a handle's path without a file, the
\* path holds no file (so every probe open of it fails with
\* FileNotFoundError) until a create() on that path succeeds; a probe of a
\* path that holds no file always fails.
C7_AsStated ==
    [][/\ \A h \in Handles :
            (/\ handles[h] # NoObj
             /\ ~exists(fs, handles[h].path)
             /\ ~(lastOp'.op = "create" /\ lastOp'.err = "none"
                    /\ lastOp'.path = handles[h].path))
            => ~exists(fs', handles[h].path)
       /\ (IsProbe(lastOp') /\ ~exists(fs', lastOp'.path))
            => lastOp'.err = "FileNotFoundError"]_vars

\* A call that puts a file at path p.
Creates(op, p) ==
    \/ op.op = "create" /\ op.err = "none" /\ op.path = p
    \/ op.op = "open" /\ op.mode \in {"w", "a", "x"} /\ op.err = "none" /\ op.path = p
    \/ op.op = "to_csv" /\ CsvTarget(op.path) = p

\* C7, amended: a successful remove() leaves no file at the path; a path
\* without a file gets one only by a create(), an open() in mode "w", "a" or
\* "x", or a to_csv() whose target it is; and until then every probe open
\* (open() in read mode, constructing a File or Sas) fails with
\* FileNotFoundError.
C7_Amended ==
    [][/\ (lastOp'.op = "remove" /\ lastOp'.err = "none") => ~exists(fs', lastOp'.path)
       /\ \A p \in Paths : (~exists(fs, p) /\ exists(fs', p)) => Creates(lastOp', p)
       /\ (IsProbe(lastOp') /\ ~exists(fs', lastOp'.path))
            => lastOp'.err = "FileNotFoundError"
       /\ (IsProbe(lastOp') /\ lastOp'.err = "FileNotFoundError")
            => ~exists(fs', lastOp'.path)]_vars

C7_Witness ==
    /\ lastOp.op = "File"
    /\ lastOp.err = "FileNotFoundError"
    /\ \E h \in Handles : handles[h] # NoObj /\ handles[h].path = lastOp.path

\* C9, as stated: whenever to_csv() returns normally, the target holds the
\* header and rows of this run only, whatever was at the target before and
\* also when the pre-clean delete failed.
C9_AsStated ==
    [][(/\ ToCsvStep
        /\ lastOp'.err = "none"
        /\ SasRows(fs, Source)
        /\ Len(fs[Source].data) >= 1)
       => /\ exists(fs', Target)
          /\ fs'[Target].data = HeaderAndRows(Len(fs[Source].data))]_vars

\* What a to_csv() step wrote: nothing, or the header and the rows of the
\* chunks written.
Written ==
    LET w == Len(Writes(lastOp'.log))
        n == IF SasRows(fs, Source) THEN Len(fs[Source].data) ELSE 0
    IN  IF w = 0 THEN <<>> ELSE HeaderAndRows(Min(n, w * DefaultChunkSize))

\* What C10 says of every to_csv() step, whether or not a target that was
\* there is said to be gone when an error is raised.
C10_Common ==
    /\ lastOp'.log[1] = "remove_error" =>
         /\ "removed" \notin {lastOp'.out[i] : i \in 1..Len(lastOp'.out)}
         /\ Len(lastOp'.log) >= 2
    /\ lastOp'.err # "none" <=> Len(Errors(lastOp'.log)) = 1
    /\ lastOp'.err # "none" =>
         /\ lastOp'.log[Len(lastOp'.log)] \in {"read_error", "write_error"}
         /\ "converted" \notin {lastOp'.out[i] : i \in 1..Len(lastOp'.out)}
    /\ lastOp'.err = "none" => lastOp'.out[Len(lastOp'.out)] = "converted"

====
